---- MODULE Spec2Model ----
(***************************************************************************)
(* Logic simulator front end: the scanner (scanner.py) that turns the      *)
(* circuit definition file into symbols, and the parser (parse.py) that    *)
(* consumes them.  A file is a sequence of characters; a character is a    *)
(* one-character string; a word is a sequence of characters.               *)
(***************************************************************************)
EXTENDS Integers, Sequences, FiniteSets, TLC

(***************************************************************************)
(* Bounds of the model.                                                    *)
(***************************************************************************)
\* longest file, in characters, among the exhaustively enumerated files
MaxTextLen == 4
\* get_symbol() calls made after the generator is exhausted
MaxExtraCalls == 2

(***************************************************************************)
(* scanner.py: symbol types (class attributes of Scanner).                 *)
(***************************************************************************)
CLOCK == 0
SWITCH == 1
AND == 2
OR == 3
NAND == 4
NOR == 5
DTYPE == 6
XOR == 7
DOT == 8
COMMA == 9
OPEN == 10
CLOSE == 11
WHITESPACE == 12
EQUALS == 13
NAME == 14
NUMBER == 15
INVALID == 16
EOL == 17
EOF == 18
MONITOR == 19
SIGGEN == 20
RC == 21

\* Python's None, the default of Symbol's type, id and loc
None == -1

(***************************************************************************)
(* Characters and the str methods the scanner uses.                        *)
(***************************************************************************)
UpperCase ==
  <<"A","B","C","D","E","F","G","H","I","J","K","L","M",
    "N","O","P","Q","R","S","T","U","V","W","X","Y","Z">>

LowerCase ==
  <<"a","b","c","d","e","f","g","h","i","j","k","l","m",
    "n","o","p","q","r","s","t","u","v","w","x","y","z">>

Digits == {"0","1","2","3","4","5","6","7","8","9"}

\* the characters str.strip() removes
Whitespace == {" ", "\t", "\n", "\r", "\f"}

\* the characters at which the pattern of re.split can start a match
DelimChars == {".", ",", "(", ")", " ", "="}

\* str.lower() on one character
LowerChar(c) ==
  IF \E i \in 1..26 : UpperCase[i] = c
  THEN LowerCase[CHOOSE i \in 1..26 : UpperCase[i] = c]
  ELSE c

\* Lower as it would be were the words compared without lowering them
LowerOmitted(w) == w

\* str.lower()
Lower(w) == [i \in 1..Len(w) |-> LowerChar(w[i])]

\* str.strip(): drop the leading and the trailing whitespace
Strip(w) ==
  LET keep == {i \in 1..Len(w) : w[i] \notin Whitespace}
  IN  IF keep = {} THEN <<>>
      ELSE SubSeq(w, CHOOSE i \in keep : \A j \in keep : i <= j,
                     CHOOSE i \in keep : \A j \in keep : j <= i)

\* str.isdigit(): non-empty and every character a digit
IsDigit(w) == Len(w) > 0 /\ \A i \in 1..Len(w) : w[i] \in Digits

(***************************************************************************)
(* Scanner.get_symbol_type: the chain of comparisons, in source order.     *)
(***************************************************************************)
get_symbol_type(w) ==
  CASE w = <<"c","l","k">> -> CLOCK
    [] w = <<"s","i","g">> -> SIGGEN
    [] w = <<"r","c">> -> RC
    [] w = <<"s","w">> -> SWITCH
    [] w = <<"a","n","d">> -> AND
    [] w = <<"o","r">> -> OR
    [] w = <<"n","a","n","d">> -> NAND
    [] w = <<"n","o","r">> -> NOR
    [] w = <<"d","t","y","p","e">> -> DTYPE
    [] w = <<"x","o","r">> -> XOR
    [] w = <<".">> -> DOT
    [] w = <<",">> -> COMMA
    [] w = <<"(">> -> OPEN
    [] w = <<")">> -> CLOSE
    [] w = <<" ">> -> WHITESPACE
    [] w = <<"=">> -> EQUALS
    [] w = <<>> -> EOL
    [] w = <<"m","o","n","i","t","o","r">> -> MONITOR
    [] OTHER -> IF IsDigit(w) THEN NUMBER ELSE NAME

(***************************************************************************)
(* symbol_gen: the file is read line by line, each line is split by        *)
(* re.split(r"(\.|,|\(|\)| +|=)", line), every word whose lowered,         *)
(* stripped text is not empty yields a symbol, the end of the line yields  *)
(* EOL and the end of the file yields EOF.                                 *)
(***************************************************************************)
\* index of the first character of s that is in set cs, 0 when there is none
FirstIn(s, cs) ==
  LET hits == {i \in 1..Len(s) : s[i] \in cs}
  IN  IF hits = {} THEN 0 ELSE CHOOSE i \in hits : \A j \in hits : i <= j

\* FileLines as it would be were a last line without a newline not read
RECURSIVE FileLinesTerminatedOnly(_)
FileLinesTerminatedOnly(t) ==
  LET i == FirstIn(t, {"\n"})
  IN  IF i = 0 THEN <<>>
      ELSE <<SubSeq(t, 1, i)>>
             \o FileLinesTerminatedOnly(SubSeq(t, i + 1, Len(t)))

\* `for line in f`: the lines of the file, each with its terminating newline
RECURSIVE FileLines(_)
FileLines(t) ==
  IF t = <<>> THEN <<>>
  ELSE LET i == FirstIn(t, {"\n"})
       IN  IF i = 0 THEN <<t>>
           ELSE <<SubSeq(t, 1, i)>> \o FileLines(SubSeq(t, i + 1, Len(t)))

\* last index of the run of spaces that starts at index i of s
RECURSIVE SpaceRunEnd(_, _)
SpaceRunEnd(s, i) ==
  IF i < Len(s) /\ s[i + 1] = " " THEN SpaceRunEnd(s, i + 1) ELSE i

\* re.split with the capturing pattern: the text before each match, the
\* match itself (one punctuation character or a maximal run of spaces), and
\* at the end the text after the last match; empty pieces are kept
RECURSIVE ReSplit(_)
ReSplit(s) ==
  LET i == FirstIn(s, DelimChars)
  IN  IF i = 0 THEN <<s>>
      ELSE LET j == IF s[i] = " " THEN SpaceRunEnd(s, i) ELSE i
           IN  <<SubSeq(s, 1, i - 1), SubSeq(s, i, j)>>
                 \o ReSplit(SubSeq(s, j + 1, Len(s)))

\* the yields of the inner loop for the words ws of one line, loc being the
\* offset reached: one symbol per non-empty word, then the line's EOL
RECURSIVE WordSymbols(_, _)
WordSymbols(ws, loc) ==
  IF ws = <<>> THEN <<[type |-> EOL, s |-> <<>>, loc |-> loc]>>
  ELSE LET w == Head(ws)
           s == Strip(Lower(w))
       IN  (IF s # <<>>
            THEN <<[type |-> get_symbol_type(s), s |-> s, loc |-> loc]>>
            ELSE <<>>)
           \o WordSymbols(Tail(ws), loc + Len(w))

\* the yields for a sequence of lines
RECURSIVE LinesSymbols(_)
LinesSymbols(ls) ==
  IF ls = <<>> THEN <<>>
  ELSE WordSymbols(ReSplit(Head(ls)), 0) \o LinesSymbols(Tail(ls))

\* everything the generator yields for a file, in order; the name of a word
\* is looked up when the symbol is yielded (see GenNext)
symbol_gen(t) ==
  LinesSymbols(FileLines(t)) \o <<[type |-> EOF, s |-> <<>>, loc |-> None]>>

(***************************************************************************)
(* The files the model reads: every file of at most MaxTextLen characters  *)
(* over Alphabet, and the sample files below.                              *)
(***************************************************************************)
Alphabet == {"a", "B", "1", ",", " ", "\t", "\n"}

ShortTexts == UNION {[1..n -> Alphabet] : n \in 0..MaxTextLen}

\* the example of the specification: two declarations, a connection, a monitor
SpecExample ==
  <<"D","E","F"," ","S","W"," ","1","\n","D","E","F"," ","A","N","D"," ","1","\n","G","1",".","I","1"," ","="," ","S","W","1","\n","M","O","N","I","T","O","R"," ","G","1">>

\* one declaration line with one kind clause
DefOne ==
  <<"D","E","F"," ","S","W"," ","1","\n">>

\* one declaration line with two kind clauses
DefTwo ==
  <<"D","E","F"," ","A","N","D"," ","2",","," ","D","T","Y","P","E","\n">>

\* a connection between two plain names
ConnPlain ==
  <<"A"," ","="," ","B","\n">>

\* a connection whose left side is NAME.PORT
ConnDotted ==
  <<"G","1",".","I","1"," ","="," ","S","W","1","\n">>

\* two connection statements
TwoConn ==
  <<"A"," ","="," ","B","\n","C"," ","="," ","D","\n">>

\* a monitor statement
MonitorOne ==
  <<"M","O","N","I","T","O","R"," ","G","1","\n">>

\* the second connection drives an input that is already driven
FanIn ==
  <<"D","E","F"," ","S","W"," ","1",","," ","A","N","D"," ","1","\n","G","1",".","I","1"," ","="," ","S","W","1","\n","G","1",".","I","1"," ","="," ","S","W","1","\n">>

\* two malformed statements on different lines
TwoBad ==
  <<"("," ",")","\n","A"," ","="," ","B","\n","="," ","=","\n">>

\* reserved words in mixed case
Reserved1 ==
  <<"C","L","K"," ","s","w"," ","A","n","d"," ","o","R","\n">>

\* reserved words in mixed case
Reserved2 ==
  <<"N","A","N","D"," ","n","O","r"," ","D","T","y","p","e"," ","X","O","R","\n">>

\* reserved words in mixed case
Reserved3 ==
  <<"M","o","n","i","t","o","r"," ","S","I","G"," ","r","C","\n">>

\* the punctuation, a number and a name
Puncts ==
  <<".",",","(",")","="," ","1","2"," ","a","1">>

\* two words that are no identifiers: one starts with a digit, one holds a $
NotIdentifiers ==
  <<"1","a","b","c"," ","a","$","b","\n">>

SampleTexts ==
  {SpecExample,
   NotIdentifiers,
   DefOne,
   DefTwo,
   ConnPlain,
   ConnDotted,
   TwoConn,
   MonitorOne,
   FanIn,
   TwoBad,
   Reserved1,
   Reserved2,
   Reserved3,
   Puncts}

Texts == ShortTexts \cup SampleTexts

(***************************************************************************)
(* State.                                                                  *)
(*   text   the circuit definition file at Scanner's path                  *)
(*   pos    the number of symbols the generator self.__symbols has yielded *)
(*   names  the name table: the strings interned so far, in order          *)
(*   out    what each get_symbol() call so far has returned or raised      *)
(*   parse  what the parse_network() call, if made, has done               *)
(***************************************************************************)
VARIABLES text, pos, names, out, parse

(***************************************************************************)
(*   gl                what the last get_line() call did                   *)
(*   cycles_completed  Gui.cycles_completed                                *)
(*   trace             the samples the monitors have recorded since the    *)
(*                     last reset_monitors(), each the number of the       *)
(*                     execute_network() call it followed                  *)
(*   sinceCold         the execute_network() calls made since the devices  *)
(*                     were last cold-started                              *)
(*   last              the last run or continue command: its cycle count,  *)
(*                     the calls it made and what run_network returned     *)
(*   net               the circuit execute_network() works on              *)
(***************************************************************************)
VARIABLES gl, cycles_completed, trace, sinceCold, last, net

scanVars == <<text, pos, names, out, parse>>

simVars == <<cycles_completed, trace, sinceCold, last>>

vars ==
  <<text, pos, names, out, parse, gl, cycles_completed, trace, sinceCold,
    last, net>>

\* Names.lookup([s]): the ID of s, interning it when it is new
Lookup(tbl, s) ==
  IF \E i \in 1..Len(tbl) : tbl[i] = s
  THEN [id |-> (CHOOSE i \in 1..Len(tbl) : tbl[i] = s) - 1, names |-> tbl]
  ELSE [id |-> Len(tbl), names |-> Append(tbl, s)]

\* Names.get_name_string(id)
get_name_string(tbl, id) == tbl[id + 1]

\* a Symbol returned to the caller
Symbol(type, id, loc) == [exc |-> "None", type |-> type, id |-> id, loc |-> loc]

\* an exception leaving get_symbol()
Raises(e) == [exc |-> e, type |-> None, id |-> None, loc |-> None]

\* next(self.__symbols) with p symbols already yielded: the generator runs
\* to its next yield, interning the word it yields; once it has yielded EOF
\* it returns, and next() raises StopIteration, now and on every later call
GenNext(t, p, tbl) ==
  LET g == symbol_gen(t)
  IN  IF p < Len(g)
      THEN LET y == g[p + 1]
           IN  IF y.s # <<>>
               THEN LET l == Lookup(tbl, y.s)
                    IN  [ret |-> Symbol(y.type, l.id, y.loc),
                         pos |-> p + 1, names |-> l.names]
               ELSE [ret |-> Symbol(y.type, None, y.loc),
                     pos |-> p + 1, names |-> tbl]
      ELSE [ret |-> Raises("StopIteration"), pos |-> p, names |-> tbl]

\* the names bound in the body of class Symbol: its docstring and __init__;
\* type, id and loc are attributes of instances only
SymbolClassAttrs == {"__doc__", "__init__"}

\* parse_network() has not been called.  status: idle, raised or returned;
\* exc: the exception that left it; success: the value returned; from: the
\* number of symbols the scanner had yielded when it was called; read: the
\* get_symbol() calls it made; dispatched: the statements that reached the
\* dispatch on symbols[0] (line 63); calls: its calls of devices, network
\* and monitors; errors: the errors it reported
ParseIdle ==
  [status |-> "idle", exc |-> "None", success |-> FALSE, from |-> 0,
   read |-> 0, dispatched |-> 0, calls |-> <<>>, errors |-> <<>>]

\* get_line() has not been called.  n: its argument; exc: the exception that
\* left it; isNone: it returned None; ret: the string it returned
NoLine == [called |-> FALSE, n |-> 0, exc |-> "None", isNone |-> FALSE,
           ret |-> <<>>]

\* no run or continue command has been given.  ret: what run_network
\* returned, "None" when it was not called
NoCommand == [cmd |-> "none", cycles |-> 0, calls |-> <<>>, ret |-> "None"]

\* Gui.__init__: cycles_completed = 0; the monitors hold no sample yet
SimInit ==
  /\ cycles_completed = 0
  /\ trace = <<>>
  /\ sinceCold = 0
  /\ last = NoCommand

\* no circuit is being executed
NoNet == [kind |-> "none", others |-> <<>>, level |-> 0, pc |-> "idle",
          passes |-> 0, result |-> "None"]

Init ==
  /\ text \in Texts
  /\ pos = 0
  /\ names = <<>>
  /\ out = <<>>
  /\ parse = ParseIdle
  /\ gl = NoLine
  /\ SimInit
  /\ net = NoNet

\* Scanner.get_symbol(), called by a client of the scanner
GetSymbol ==
  /\ Len(out) < Len(symbol_gen(text)) + MaxExtraCalls
  /\ LET r == GenNext(text, pos, names)
     IN  /\ pos' = r.pos
         /\ names' = r.names
         /\ out' = Append(out, r.ret)
  /\ UNCHANGED <<text, parse, gl, simVars, net>>

\* Parser.parse_network().  It sets up device_id, symbols and EOF_flag, enters
\* both loops and calls get_symbol() once (line 56).  If that call raises,
\* the exception leaves parse_network.  Otherwise line 58 evaluates Symbol.NL
\* to build the tuple (Symbol.NL, Symbol.EOF); class Symbol has no attribute
\* NL, so the evaluation raises AttributeError, which nothing catches.  No
\* statement after line 58 is ever executed: no statement is dispatched
\* (line 63), no call reaches devices, network or monitors, nothing is
\* reported and line 124 is not reached.
ParseNetwork ==
  /\ parse.status = "idle"
  /\ LET r == GenNext(text, pos, names)
     IN  /\ r.ret.exc = "None" => "NL" \notin SymbolClassAttrs
         /\ pos' = r.pos
         /\ names' = r.names
         /\ out' = Append(out, r.ret)
         /\ parse' =
              [status |-> "raised",
               exc |-> IF r.ret.exc # "None" THEN r.ret.exc
                       ELSE "AttributeError",
               success |-> FALSE, from |-> pos, read |-> 1,
               dispatched |-> 0, calls |-> <<>>, errors |-> <<>>]
  /\ UNCHANGED <<text, gl, simVars, net>>

Next == GetSymbol \/ ParseNetwork

Spec == Init /\ [][Next]_vars

(***************************************************************************)
(* Scanner.get_line.                                                       *)
(***************************************************************************)
\* largest line number asked for
MaxLineNo == 3

\* get_line(n): the file is opened again and next(f) is called n times; when
\* the file has fewer than n lines next(f) raises StopIteration; for n <= 0
\* the loop does nothing, line is still None and line.strip() raises
\* AttributeError; otherwise the n-th line, stripped, is returned
get_line(t, n) ==
  IF n > Len(FileLines(t))
  THEN [called |-> TRUE, n |-> n, exc |-> "StopIteration", isNone |-> FALSE,
        ret |-> <<>>]
  ELSE IF n <= 0
  THEN [called |-> TRUE, n |-> n, exc |-> "AttributeError", isNone |-> FALSE,
        ret |-> <<>>]
  ELSE [called |-> TRUE, n |-> n, exc |-> "None", isNone |-> FALSE,
        ret |-> Strip(FileLines(t)[n])]

\* a client calls get_line(n)
GetLine ==
  /\ \E n \in 0..MaxLineNo : gl' = get_line(text, n)
  /\ UNCHANGED <<scanVars, simVars, net>>

LineSpec == Init /\ [][GetLine]_vars

(***************************************************************************)
(* gui.py: the run and continue commands.  The number of cycles is the     *)
(* value of the spin control (an integer, never None); whether an          *)
(* execute_network() call succeeds is decided by the network: ok is the    *)
(* number of calls that return True before the first that returns False.   *)
(***************************************************************************)
\* largest number of cycles asked for in one command
MaxCycles == 3
\* most execute_network() calls between two cold starts
MaxExec == 5

\* k successful cycles: execute_network() returns True, then record_signals()
RECURSIVE CycleCalls(_)
CycleCalls(k) ==
  IF k = 0 THEN <<>>
  ELSE CycleCalls(k - 1) \o <<"execute_network:True", "record_signals">>

\* run_network as it would be were the signals recorded before the result of
\* execute_network is looked at
RunNetworkRecordsFirst(cycles, ok, tr, sc) ==
  IF ok < cycles
  THEN [calls |-> CycleCalls(ok)
                    \o <<"execute_network:False", "record_signals">>,
        ret |-> "False",
        trace |-> tr \o [i \in 1..(ok + 1) |-> sc + i],
        sinceCold |-> sc + ok + 1]
  ELSE [calls |-> CycleCalls(ok) \o <<"display_signals">>,
        ret |-> "True",
        trace |-> tr \o [i \in 1..ok |-> sc + i],
        sinceCold |-> sc + ok]

\* Gui.run_network(cycles), started with trace tr and sc execute_network()
\* calls since the cold start: each cycle calls execute_network(); a True is
\* followed by record_signals(); the first False ends the loop at once with
\* False; after the last cycle display_signals() is called and True returned
RunNetwork(cycles, ok, tr, sc) ==
  IF ok < cycles
  THEN [calls |-> CycleCalls(ok) \o <<"execute_network:False">>,
        ret |-> "False",
        trace |-> tr \o [i \in 1..ok |-> sc + i],
        sinceCold |-> sc + ok + 1]
  ELSE [calls |-> CycleCalls(ok) \o <<"display_signals">>,
        ret |-> "True",
        trace |-> tr \o [i \in 1..ok |-> sc + i],
        sinceCold |-> sc + ok]

\* Gui.run_command(): cycles_completed = 0, reset_monitors(), cold_startup(),
\* run_network(cycles), and cycles_completed += cycles when it returned True
RunCommand ==
  /\ \E cycles \in 0..MaxCycles : \E ok \in 0..cycles :
       LET r == RunNetwork(cycles, ok, <<>>, 0)
       IN  /\ cycles_completed' = IF r.ret = "True" THEN 0 + cycles ELSE 0
           /\ trace' = r.trace
           /\ sinceCold' = r.sinceCold
           /\ last' = [cmd |-> "run", cycles |-> cycles,
                       calls |-> <<"reset_monitors", "cold_startup">>
                                   \o r.calls,
                       ret |-> r.ret]
  /\ UNCHANGED <<scanVars, gl, net>>

\* continue_command as it would be without the test of cycles_completed
ContinueUnchecked ==
  /\ \E cycles \in 0..MaxCycles : \E ok \in 0..cycles :
       /\ sinceCold + cycles <= MaxExec
       /\ LET r == RunNetwork(cycles, ok, trace, sinceCold)
          IN  /\ cycles_completed' =
                   IF r.ret = "True" THEN cycles_completed + cycles
                   ELSE cycles_completed
              /\ trace' = r.trace
              /\ sinceCold' = r.sinceCold
              /\ last' = [cmd |-> "continue", cycles |-> cycles,
                          calls |-> r.calls, ret |-> r.ret]
  /\ UNCHANGED <<scanVars, gl, net>>

\* continue_command as it would be were the devices cold-started, as in
\* run_command, before the cycles
ContinueColdStarts ==
  /\ \E cycles \in 0..MaxCycles : \E ok \in 0..cycles :
       IF cycles_completed = 0
       THEN /\ last' = [cmd |-> "continue", cycles |-> cycles,
                        calls |-> <<>>, ret |-> "None"]
            /\ UNCHANGED <<cycles_completed, trace, sinceCold>>
       ELSE LET r == RunNetwork(cycles, ok, trace, 0)
            IN  /\ cycles_completed' =
                     IF r.ret = "True" THEN cycles_completed + cycles
                     ELSE cycles_completed
                /\ trace' = r.trace
                /\ sinceCold' = r.sinceCold
                /\ last' = [cmd |-> "continue", cycles |-> cycles,
                            calls |-> <<"cold_startup">> \o r.calls,
                            ret |-> r.ret]
  /\ UNCHANGED <<scanVars, gl, net>>

\* Gui.continue_command(): with cycles_completed = 0 it only prints an error;
\* otherwise run_network(cycles), and cycles_completed += cycles when it
\* returned True
ContinueCommand ==
  /\ \E cycles \in 0..MaxCycles : \E ok \in 0..cycles :
       /\ sinceCold + cycles <= MaxExec
       /\ IF cycles_completed = 0
          THEN /\ last' = [cmd |-> "continue", cycles |-> cycles,
                           calls |-> <<>>, ret |-> "None"]
               /\ UNCHANGED <<cycles_completed, trace, sinceCold>>
          ELSE LET r == RunNetwork(cycles, ok, trace, sinceCold)
               IN  /\ cycles_completed' =
                        IF r.ret = "True" THEN cycles_completed + cycles
                        ELSE cycles_completed
                   /\ trace' = r.trace
                   /\ sinceCold' = r.sinceCold
                   /\ last' = [cmd |-> "continue", cycles |-> cycles,
                               calls |-> r.calls, ret |-> r.ret]
  /\ UNCHANGED <<scanVars, gl, net>>

\* the window has been built; no definition file is being scanned
GuiInit ==
  /\ text = <<>>
  /\ pos = 0
  /\ names = <<>>
  /\ out = <<>>
  /\ parse = ParseIdle
  /\ gl = NoLine
  /\ SimInit
  /\ net = NoNet

GuiNext == RunCommand \/ ContinueCommand

GuiSpec == GuiInit /\ [][GuiNext]_vars

(***************************************************************************)
(* Network.execute_network on a gate whose output is wired to its own      *)
(* first input; its other inputs are driven by switches.  The gate is one  *)
(* device and each switch is one.                                          *)
(***************************************************************************)
\* most inputs of the gate besides the one fed back
MaxOthers == 2

GateKinds == {"AND", "OR", "NAND", "NOR", "XOR"}

Levels == {0, 1}

\* EvalGate as it would be were NOR evaluated without its negation
EvalGateNorAsOr(kind, ins) ==
  LET all == \A i \in 1..Len(ins) : ins[i] = 1
      any == \E i \in 1..Len(ins) : ins[i] = 1
  IN  CASE kind = "AND" -> IF all THEN 1 ELSE 0
        [] kind = "NAND" -> IF all THEN 0 ELSE 1
        [] kind = "OR" -> IF any THEN 1 ELSE 0
        [] kind = "NOR" -> IF any THEN 1 ELSE 0
        [] kind = "XOR" -> (ins[1] + ins[2]) % 2

\* the output of a gate of this kind for the input levels ins
EvalGate(kind, ins) ==
  LET all == \A i \in 1..Len(ins) : ins[i] = 1
      any == \E i \in 1..Len(ins) : ins[i] = 1
  IN  CASE kind = "AND" -> IF all THEN 1 ELSE 0
        [] kind = "NAND" -> IF all THEN 0 ELSE 1
        [] kind = "OR" -> IF any THEN 1 ELSE 0
        [] kind = "NOR" -> IF any THEN 0 ELSE 1
        [] kind = "XOR" -> (ins[1] + ins[2]) % 2

\* the number of devices of circuit n: the gate and one switch per other input
NumDevices(n) == 1 + Len(n.others)

\* the circuits: a gate of each kind with up to MaxOthers other inputs (an XOR
\* gate has exactly two inputs), every level of the switches and either level
\* of the gate's output, which is undefined until the first evaluation
Circuits ==
  {[kind |-> k, others |-> o, level |-> l, pc |-> "idle", passes |-> 0,
    result |-> "None"] :
     k \in GateKinds, o \in UNION {[1..m -> Levels] : m \in 0..MaxOthers},
     l \in Levels}

NetInit ==
  /\ text = <<>>
  /\ pos = 0
  /\ names = <<>>
  /\ out = <<>>
  /\ parse = ParseIdle
  /\ gl = NoLine
  /\ SimInit
  /\ net \in {n \in Circuits : n.kind = "XOR" => Len(n.others) = 1}

\* devices.set_switch between two cycles: switch i is set to level v; the
\* caller has by then taken the result of the cycle before
SetSwitch ==
  /\ net.pc # "running"
  /\ \E i \in 1..Len(net.others) : \E v \in Levels :
       net' = [net EXCEPT !.others[i] = v, !.pc = "idle", !.result = "None"]
  /\ UNCHANGED <<scanVars, gl, simVars>>

\* execute_network() is called: the switches hold their levels, and the
\* passes begin
ExecuteStart ==
  /\ net.pc # "running"
  /\ net' = [net EXCEPT !.pc = "running", !.passes = 0, !.result = "None"]
  /\ UNCHANGED <<scanVars, gl, simVars>>

\* one pass of execute_network(): every device's output is evaluated from its
\* inputs.  A pass that changes no output ends the cycle with success; when
\* the number of passes exceeds the number of devices and the last one still
\* changed an output, the cycle is aborted and oscillation is reported.
Pass ==
  /\ net.pc = "running"
  /\ LET new == EvalGate(net.kind, <<net.level>> \o net.others)
     IN  net' =
           IF new = net.level
           THEN [net EXCEPT !.passes = @ + 1, !.pc = "done", !.result = "True"]
           ELSE IF net.passes + 1 > NumDevices(net)
           THEN [net EXCEPT !.passes = @ + 1, !.level = new, !.pc = "done",
                            !.result = "False"]
           ELSE [net EXCEPT !.passes = @ + 1, !.level = new]
  /\ UNCHANGED <<scanVars, gl, simVars>>

NetNext == SetSwitch \/ ExecuteStart \/ Pass

NetSpec == NetInit /\ [][NetNext]_vars

(***************************************************************************)
(* What the claims speak of, stated on the file's text and on the results  *)
(* of the calls, without the scanner's own splitting.                      *)
(***************************************************************************)
\* the symbols that get_symbol() calls have returned so far, in order
Returned == SelectSeq(out, LAMBDA e : e.exc = "None")

\* the positions of the newline characters of file t
NewlineIdx(t) == {i \in 1..Len(t) : t[i] = "\n"}

\* the position of the k-th newline of t; 0 for k = 0
NthNewline(t, k) ==
  IF k = 0 THEN 0
  ELSE CHOOSE n \in NewlineIdx(t) :
         Cardinality({m \in NewlineIdx(t) : m <= n}) = k

\* the number of physical lines: one per newline, and one more when
\* characters follow the last newline
NumLines(t) ==
  Cardinality(NewlineIdx(t))
    + (IF t # <<>> /\ t[Len(t)] # "\n" THEN 1 ELSE 0)

\* the characters of physical line i of t, without its newline
PhysLine(t, i) ==
  SubSeq(t, NthNewline(t, i - 1) + 1,
            IF i <= Cardinality(NewlineIdx(t)) THEN NthNewline(t, i) - 1
            ELSE Len(t))

\* the positions in r of its EOL symbols
EolIdx(r) == {i \in 1..Len(r) : r[i].type = EOL}

\* the position in r of its k-th EOL; 0 for k = 0, Len(r) + 1 when r has
\* fewer than k
NthEol(r, k) ==
  IF k = 0 THEN 0
  ELSE IF k > Cardinality(EolIdx(r)) THEN Len(r) + 1
  ELSE CHOOSE n \in EolIdx(r) : Cardinality({m \in EolIdx(r) : m <= n}) = k

\* the symbols of r after its (i-1)-th EOL and before its i-th
Segment(r, i) == SubSeq(r, NthEol(r, i - 1) + 1, NthEol(r, i) - 1)

RECURSIVE Flatten(_)
Flatten(ws) == IF ws = <<>> THEN <<>> ELSE Head(ws) \o Flatten(Tail(ws))

\* the interned texts of the symbols of seg, in order
SymbolTexts(seg) == [i \in 1..Len(seg) |-> get_name_string(names, seg[i].id)]

RemoveWS(w) == SelectSeq(w, LAMBDA c : c \notin Whitespace)

\* w with its letters in lower case
LowerText(w) == [i \in 1..Len(w) |-> LowerChar(w[i])]

IsPrefix(a, b) == Len(a) <= Len(b) /\ a = SubSeq(b, 1, Len(a))

\* the tokens of a line, read character by character: a punctuation
\* character is a token, a space ends the token before it, and any other
\* run of characters is one token; cur is the token being read
RECURSIVE LineTokens(_, _)
LineTokens(l, cur) ==
  LET flush == IF cur = <<>> THEN <<>> ELSE <<cur>>
  IN  IF l = <<>> THEN flush
      ELSE IF Head(l) = " " THEN flush \o LineTokens(Tail(l), <<>>)
      ELSE IF Head(l) \in {".", ",", "(", ")", "="}
           THEN flush \o <<<<Head(l)>>>> \o LineTokens(Tail(l), <<>>)
      ELSE LineTokens(Tail(l), Append(cur, Head(l)))

\* the reserved words and the punctuation, with the type each is given
ReservedTypes ==
  {<<<<"c","l","k">>, CLOCK>>, <<<<"s","w">>, SWITCH>>,
   <<<<"a","n","d">>, AND>>, <<<<"o","r">>, OR>>,
   <<<<"n","a","n","d">>, NAND>>, <<<<"n","o","r">>, NOR>>,
   <<<<"d","t","y","p","e">>, DTYPE>>, <<<<"x","o","r">>, XOR>>,
   <<<<"m","o","n","i","t","o","r">>, MONITOR>>,
   <<<<"s","i","g">>, SIGGEN>>, <<<<"r","c">>, RC>>,
   <<<<".">>, DOT>>, <<<<",">>, COMMA>>, <<<<"(">>, OPEN>>,
   <<<<")">>, CLOSE>>, <<<<"=">>, EQUALS>>}

\* the type the classification rule gives token tok
TokenType(tok) ==
  LET l == LowerText(tok)
  IN  IF \E p \in ReservedTypes : p[1] = l
      THEN (CHOOSE p \in ReservedTypes : p[1] = l)[2]
      ELSE IF \A i \in 1..Len(tok) : tok[i] \in Digits THEN NUMBER
      ELSE NAME

\* C8: once get_symbol() has returned EOF, every later call returns an EOF
\* symbol and none fails.
EofRepeats ==
  \A i, j \in 1..Len(out) :
    (i < j /\ out[i].exc = "None" /\ out[i].type = EOF)
      => (out[j].exc = "None" /\ out[j].type = EOF)

TokenClassification ==
  LET r == Returned
      e == Cardinality(EolIdx(r))
  IN  /\ \A i \in 1..Len(r) :
           r[i].type \notin {EOL, EOF}
             => r[i].type = TokenType(get_name_string(names, r[i].id))
      /\ (\A i \in 1..Len(text) : text[i] # "\t")
           => \A i \in 1..e :
                LET seg == Segment(r, i)
                    toks == LineTokens(PhysLine(text, i), <<>>)
                IN  /\ Len(seg) = Len(toks)
                    /\ \A n \in 1..Len(seg) :
                         /\ seg[n].type = TokenType(toks[n])
                         /\ get_name_string(names, seg[n].id)
                              = LowerText(toks[n])

\* C10 witness: the line of reserved words in mixed case has been read.
ReservedWordsRead ==
  /\ text = Reserved1
  /\ Len(Returned) = 5
  /\ Returned[1].type = CLOCK
  /\ Returned[3].type = AND

(***************************************************************************)
(* parse_network, called on a scanner that has yielded nothing yet.        *)
(***************************************************************************)
\* parse_network() was called on the whole file and has ended
ParseEnded == parse.status # "idle" /\ parse.from = 0

\* the physical lines of t that hold a statement (at least one token)
StatementLines(t) ==
  {i \in 1..NumLines(t) : RemoveWS(PhysLine(t, i)) # <<>>}

\* t has a line that starts with a punctuation character: such a line is
\* no declaration, no connection and no monitor statement
HasMalformedLine(t) ==
  \E i \in StatementLines(t) :
    RemoveWS(PhysLine(t, i))[1] \in {".", ",", "(", ")", "="}

\* the calls parse_network made of the functions fns
CallsOf(fns) == SelectSeq(parse.calls, LAMBDA c : c.fn \in fns)

\* C1: parse_network dispatches every statement line of the file and stops
\* reading only after the scanner has returned EOF.
ParseReadsWholeFile ==
  ParseEnded =>
    /\ out[parse.read].exc = "None"
    /\ out[parse.read].type = EOF
    /\ parse.dispatched = Cardinality(StatementLines(text))

\* C2: parse_network never ends by raising an exception, and for the file
\* with two malformed statements on different lines it returns success=false
\* with exactly two errors.
ParseRecovers ==
  /\ parse.status # "raised"
  /\ (ParseEnded /\ text = TwoBad)
       => (parse.status = "returned" /\ ~parse.success
           /\ Len(parse.errors) = 2)

\* C3: for a file with a line that matches none of the statement forms,
\* parse_network returns a success flag that is not true.
ParseFlagsMalformedLine ==
  (ParseEnded /\ HasMalformedLine(text))
    => (parse.status = "returned" /\ ~parse.success)

\* C4: for a declaration line of k kind clauses parse_network makes exactly k
\* device-creation calls, with device IDs that increase by one per clause.
ParseCreatesDevices ==
  \A d \in {<<DefOne, 1>>, <<DefTwo, 2>>} :
    (ParseEnded /\ text = d[1])
      => LET c == CallsOf({"make_gate", "make_clock", "make_switch",
                            "make_d_type"})
         IN  /\ Len(c) = d[2]
             /\ \A i \in 1..Len(c) : c[i].id = c[1].id + (i - 1)

\* C5: a connection statement, with plain or dotted signals, is accepted and
\* causes exactly one make_connection call.
ParseConnects ==
  (ParseEnded /\ text \in {ConnPlain, ConnDotted})
    => /\ parse.status = "returned"
       /\ parse.errors = <<>>
       /\ Len(CallsOf({"make_connection"})) = 1

\* C6: a monitor statement naming one signal causes one make_monitor call.
ParseRegistersMonitors ==
  (ParseEnded /\ text \in {MonitorOne, SpecExample})
    => Len(CallsOf({"make_monitor"})) = 1

\* C7: when a connection is rejected (its input is already driven, or an
\* endpoint is not declared), parse_network records an error for the
\* statement and does not return success=true.
ParseReportsRejectedConnection ==
  (ParseEnded /\ text \in {FanIn, ConnPlain})
    => /\ parse.status = "returned"
       /\ ~parse.success
       /\ Len(parse.errors) >= 1

(***************************************************************************)
(* Identifiers and locations.                                              *)
(***************************************************************************)
\* the characters of a word: letters, digits and the underscore
WordChars ==
  {UpperCase[i] : i \in 1..26} \cup {LowerCase[i] : i \in 1..26}
    \cup Digits \cup {"_"}

\* w is a bare identifier: a letter or an underscore, then word characters
IsIdentifier(w) ==
  /\ w # <<>>
  /\ w[1] \in WordChars \ Digits
  /\ \A i \in 1..Len(w) : w[i] \in WordChars

\* C11: the scanner returns no NAME symbol for a token that is no identifier
\* (it fails with a classification error instead).
NameIsIdentifier ==
  \A i \in 1..Len(Returned) :
    Returned[i].type = NAME
      => IsIdentifier(get_name_string(names, Returned[i].id))

\* C12: the location of every symbol of a line's tokens is the zero-based
\* offset, in that line, of the first character of the symbol's text: the
\* characters of the line that start there are the symbol's text.
LocationIsOffset ==
  LET r == Returned
      e == Cardinality(EolIdx(r))
  IN  \A i \in 1..(e + 1) :
        LET seg == SelectSeq(Segment(r, i), LAMBDA y : y.type # EOF)
            l == PhysLine(text, i)
        IN  \A n \in 1..Len(seg) :
              LET s == get_name_string(names, seg[n].id)
              IN  /\ seg[n].loc + Len(s) <= Len(l)
                  /\ LowerText(SubSeq(l, seg[n].loc + 1, seg[n].loc + Len(s)))
                       = s

\* LocationIsOffset restricted to the files that hold no tab character
LocationIsOffsetWithoutTabs ==
  (\A i \in 1..Len(text) : text[i] # "\t") => LocationIsOffset

\* C16: get_line(n) returns the text of line n when the file has a line n,
\* and returns None, without raising, when it has none (n = 0, or n larger
\* than the number of lines).  The text is compared without its whitespace.
GetLineTotal ==
  gl.called =>
    IF 1 <= gl.n /\ gl.n <= NumLines(text)
    THEN /\ gl.exc = "None"
         /\ ~gl.isNone
         /\ RemoveWS(gl.ret) = RemoveWS(PhysLine(text, gl.n))
    ELSE gl.exc = "None" /\ gl.isNone

\* get_line(n) for a line the file has: GetLineTotal for those n alone
GetLineOfExistingLine ==
  (gl.called /\ 1 <= gl.n /\ gl.n <= NumLines(text)) => GetLineTotal

(***************************************************************************)
(* The run and continue commands.                                          *)
(***************************************************************************)
\* how many of the calls c are calls of one of fns
CountCalls(c, fns) == Len(SelectSeq(c, LAMBDA x : x \in fns))

ExecCalls == {"execute_network:True", "execute_network:False"}

\* C13: in run_network, record_signals is called exactly once after each
\* execute_network call that returns True and never after one that returns
\* False; the first False is the last call, nothing is recorded for that
\* cycle, and run_network returns False.
RunNetworkRecording ==
  LET c == last.calls
  IN  /\ \A i \in 1..Len(c) :
           /\ c[i] = "record_signals"
                => (i > 1 /\ c[i - 1] = "execute_network:True")
           /\ c[i] = "execute_network:True"
                => (i < Len(c) /\ c[i + 1] = "record_signals")
           /\ c[i] = "execute_network:False"
                => (i = Len(c) /\ last.ret = "False")
      /\ last.ret = "False"
           => (c # <<>> /\ c[Len(c)] = "execute_network:False")
      /\ CountCalls(c, ExecCalls) <= last.cycles
      /\ last.cmd = "run" => Len(trace) = CountCalls(c, {"record_signals"})

\* C13 witness: a run of three cycles whose second cycle oscillated: one
\* sample was recorded, the third cycle was not executed.
RunStoppedAtOscillation ==
  /\ last.cmd = "run"
  /\ last.cycles = 3
  /\ last.ret = "False"
  /\ Len(trace) = 1
  /\ CountCalls(last.calls, ExecCalls) = 2

\* C14: a continue command calls neither cold_startup nor reset_monitors: the
\* samples recorded so far stay, followed by those of the cycles it executes,
\* and the devices go on from where they were; a run command calls
\* reset_monitors and cold_startup first, so that only its own cycles count.
WarmContinue ==
  [][/\ last'.cmd = "continue"
          => /\ CountCalls(last'.calls, {"cold_startup", "reset_monitors"}) = 0
             /\ IsPrefix(trace, trace')
             /\ Len(trace') = Len(trace)
                                + CountCalls(last'.calls, {"record_signals"})
             /\ sinceCold' = sinceCold + CountCalls(last'.calls, ExecCalls)
     /\ last'.cmd = "run"
          => /\ SubSeq(last'.calls, 1, 2) = <<"reset_monitors", "cold_startup">>
             /\ Len(trace') = CountCalls(last'.calls, {"record_signals"})
             /\ sinceCold' = CountCalls(last'.calls, ExecCalls)]_vars

\* C14 witness: a continue command has executed two cycles after earlier
\* ones, whose samples are still there.
ContinuedAfterRun ==
  /\ last.cmd = "continue"
  /\ last.cycles = 2
  /\ last.ret = "True"
  /\ Len(trace) = 4
  /\ sinceCold = 4

\* C17: cycles_completed is the number of record_signals calls made since the
\* last reset_monitors, the length of the monitors' traces.
CyclesCompletedIsTraceLength == cycles_completed = Len(trace)

\* C18: a continue command given while cycles_completed is 0 makes no call
\* and leaves cycles_completed at 0; and a run command of 0 cycles, or one
\* whose run_network returned False, leaves cycles_completed at 0, so that
\* continue commands are refused after it.
ContinueRefusedAtZero ==
  [][/\ (last'.cmd = "continue" /\ cycles_completed = 0)
          => /\ last'.calls = <<>>
             /\ cycles_completed' = 0
             /\ trace' = trace
             /\ sinceCold' = sinceCold
     /\ (last'.cmd = "run" /\ (last'.cycles = 0 \/ last'.ret = "False"))
          => cycles_completed' = 0]_vars

\* C18 witness: a continue command of two cycles was refused after a run that
\* oscillated in its second cycle.
ContinueRefusedAfterOscillation ==
  /\ last.cmd = "continue"
  /\ last.cycles = 2
  /\ last.calls = <<>>
  /\ cycles_completed = 0
  /\ Len(trace) = 1
  /\ sinceCold = 2

(***************************************************************************)
(* Feedback loops.                                                         *)
(***************************************************************************)
\* with these levels on its other inputs, a gate of this kind outputs the
\* opposite of the level fed back to it
Inverts(kind, others) ==
  \/ kind = "NAND" /\ \A i \in 1..Len(others) : others[i] = 1
  \/ kind = "NOR" /\ \A i \in 1..Len(others) : others[i] = 0
  \/ kind = "XOR" /\ others[1] = 1

\* C15 as stated: for a gate of any kind whose output is wired to one of its
\* inputs, with any levels on the other inputs, execute_network ends with
\* failure (oscillation).
SelfLoopAlwaysFails ==
  net.pc = "done" => net.result = "False"

\* C15 as amended: execute_network ends after at most one pass more than
\* there are devices, and it ends with failure exactly when the gate inverts the
\* level fed back to it (NAND with every other input high, NOR with every
\* other input low, XOR with the other input high); otherwise the loop has a
\* fixed point and it ends with success.
SelfLoopFailsWhenInverting ==
  /\ net.passes <= NumDevices(net) + 1
  /\ net.pc = "done"
       => /\ net.result \in {"True", "False"}
          /\ net.result = "False" <=> Inverts(net.kind, net.others)

\* C15 witness: a NOR gate with its own output and a low switch as inputs has
\* been executed, and oscillation was reported after three passes.
NorLoopOscillated ==
  /\ net.kind = "NOR"
  /\ net.others = <<0>>
  /\ net.pc = "done"
  /\ net.passes = 3
  /\ net.result = "False"

====
